---- MODULE Spec2Model ----
(***************************************************************************)
(* Model of the guild-scoped ticket bot in src/bot.py: the JSON-backed     *)
(* store (config.json, tickets.json), the ticket creation workflow, close, *)
(* owner wipe, config commands, the on_ready prompt repair and the reset   *)
(* confirmation view.                                                      *)
(*                                                                         *)
(* The bot is one asyncio process: a handler runs without interruption     *)
(* from one `await` to the next, so every action below is the code between *)
(* two suspension points of one handler.  Handlers in flight live in the   *)
(* slots of h; their local variables (the `cfg` and `tickets` objects they *)
(* loaded, `now`, `ticket_id`) are fields of the slot.                     *)
(***************************************************************************)
EXTENDS Integers, Sequences, FiniteSets, TLC

VARIABLES
    configFile,   \* parsed content of config.json: guild -> cfg dict
    ticketsFile,  \* parsed content of tickets.json: guild -> (ticket id -> record)
    chanGuild,    \* ticket channels ever created: chanGuild[i] is the guild of channel TicketChan(i)
    liveChans,    \* ids of the ticket channels that currently exist on the platform
    nextMsg,      \* number of prompt messages posted so far (message ids are fresh)
    prompt,       \* prompt[g]: an "Open Ticket" button message was posted in g
    modal,        \* modal[g]: a TicketModal was presented to users of g and can be submitted
    today,        \* index of the current UTC day
    h,            \* handler slots: the coroutines in flight and their locals
    log,          \* history: log[g] is the sequence of ticket ids persisted by creations of g
    deleted,      \* history: deleted[g] iff a close, owner wipe or reset of g has written the store
    env,          \* scenario parameters fixed by Init: slots, maxChans, maxDay, replies, track
    disk,         \* raw state of the two files in the scenarios of the file layer
    removed       \* history, kept when env.track: the records a completed close, owner wipe or reset removed

vars == <<configFile, ticketsFile, chanGuild, liveChans, nextMsg, prompt, modal,
          today, h, log, deleted, env, disk, removed>>

-----------------------------------------------------------------------------
(* Bounds of the model *)

NumGuilds == 2
NumUsers == 3
NumCustomers == 2
NumSlots == 2
MaxChans == 2
MaxChansSeq == 2
MaxMsgs == 3
MaxDaySeq == 2
MaxChansQuota == 5
MaxDayQuota == 5
MaxChansReset == 2
MaxChansAdmin == 2
MaxChansStore == 1
DaysPerMonth == 2
MonthsPerYear == 2
MaxSetupLimit == 2
TickUnits == 10
NumActorRoles == 2
MaxChansRemoval == 2

(* Program constants *)

MAX_TICKET_MESSAGE_LEN == 500
DefaultLimit == 5
ViewTimeout == 30
SetupDefaultLimit == 5

Guilds == 1..NumGuilds
Users == 1..NumUsers
\* The users who open tickets.
Customers == 1..NumCustomers
Slots == 1..NumSlots

-----------------------------------------------------------------------------
(* The platform: members, roles, permissions, channels.                     *)

\* Role 1 is the only role of the model; user 2 holds it.
RoleIds == {1}

\* interaction.user as the handlers see it: id, roles, guild_permissions.
\* User 3 is an administrator, user 2 holds role 1, the others are plain.
Member(u) ==
    [id |-> u,
     is_member |-> TRUE,
     roles |-> IF u = 2 THEN {1} ELSE {},
     manage_guild |-> FALSE,
     administrator |-> (u = 3)]

\* Every guild has one text channel that is not a ticket channel (where
\* setup posts the prompt); ticket channels get fresh ids after these.
LobbyChan(g) == g
TicketChan(i) == NumGuilds + i

\* The ticket channels created in guild g so far, deleted or not.
CreatedChans(g) == {TicketChan(i) : i \in {j \in DOMAIN chanGuild : chanGuild[j] = g}}

\* guild.get_channel(id): the channel object, when it exists.
ChannelExists(g, c) == c = LobbyChan(g) \/ (c \in liveChans /\ c \in CreatedChans(g))

-----------------------------------------------------------------------------
(* Dates.  `now` is a day index; the calendar is shrunk to DaysPerMonth     *)
(* days a month and MonthsPerYear months a year so that month and year     *)
(* boundaries are crossed within a few days.                                *)

YearOf(d) == (d - 1) \div (DaysPerMonth * MonthsPerYear)
MonthOf(d) == ((d - 1) \div DaysPerMonth) % MonthsPerYear

-----------------------------------------------------------------------------
(* Python dicts as functions.                                               *)

EmptyDict == <<>>

\* d.get(k, default)
Get(d, k, default) == IF k \in DOMAIN d THEN d[k] ELSE default

\* d[k] = v
Put(d, k, v) == [j \in DOMAIN d \cup {k} |-> IF j = k THEN v ELSE d[j]]

\* d.pop(k, None)
Pop(d, k) == [j \in DOMAIN d \ {k} |-> d[j]]

-----------------------------------------------------------------------------
(* Store: get_config / set_config / get_tickets / save_tickets.             *)

\* get_config(guild_id): data.get(str(guild_id), {}); writes nothing.
get_config(g) == Get(configFile, g, EmptyDict)

\* set_config(guild_id, cfg): the file content after the call.
set_config(g, cfg) == Put(configFile, g, cfg)

\* get_tickets(guild_id): the file content after the call; a missing guild
\* entry is created empty and saved.
get_tickets_file(g) ==
    IF g \notin DOMAIN ticketsFile THEN Put(ticketsFile, g, EmptyDict) ELSE ticketsFile

\* get_tickets(guild_id): the dict it returns.
get_tickets(g) == get_tickets_file(g)[g]

\* A save that writes the guild's entry alone.
save_tickets_alone(file, g, tickets) == [x \in {g} |-> tickets]

\* save_tickets(guild_id, tickets) applied to file content `file`.
save_tickets(file, g, tickets) == Put(file, g, tickets)

-----------------------------------------------------------------------------
(* is_manager(member, cfg)                                                  *)

\* A check every member passes.
is_manager_all(member, cfg) == TRUE

is_manager(member, cfg) ==
    LET allowed_roles == Get(cfg, "allowed_roles", <<>>)
        allowed_users == Get(cfg, "allowed_users", <<>>)
    IN  IF \E i \in DOMAIN allowed_users : allowed_users[i] = member.id
        THEN TRUE
        ELSE IF ~member.is_member
        THEN FALSE   \* member.roles raises: the except branch denies
        ELSE IF \E i \in DOMAIN allowed_roles : allowed_roles[i] \in member.roles
        THEN TRUE
        ELSE member.manage_guild \/ member.administrator

-----------------------------------------------------------------------------
(* parse_mention.  A token is [form, n, numeric]: "<@&n>" (role), "<@!n>"   *)
(* (nick), "<@n>" (user), "n" (digits), anything else (text); numeric is    *)
(* FALSE when the payload between the brackets is not an integer.           *)

NoMention == [kind |-> "none", val |-> 0]

parse_mention(item) ==
    IF item.form = "role"
    THEN IF item.numeric THEN [kind |-> "role", val |-> item.n] ELSE NoMention
    ELSE IF item.form \in {"nick", "user"}
    THEN IF item.numeric THEN [kind |-> "user", val |-> item.n] ELSE NoMention
    ELSE IF item.form = "digits"
    THEN [kind |-> "id", val |-> item.n]
    ELSE NoMention

RoleToken(n) == [form |-> "role", n |-> n, numeric |-> TRUE]
UserToken(n) == [form |-> "user", n |-> n, numeric |-> TRUE]

\* The tokens the commands are invoked with.
Tokens == {RoleToken(1), UserToken(2)}

\* The comma-separated lists setup is invoked with.
SetupLists == {<<>>, <<UserToken(2)>>}

\* Lists for setup that name a principal twice or name two principals.
SetupListsRepeated == {<<>>, <<RoleToken(1), UserToken(2)>>, <<UserToken(2), UserToken(2)>>}

\* list.remove(v): the first occurrence goes.
RemoveFirst(s, v) ==
    LET i == CHOOSE j \in DOMAIN s : s[j] = v /\ \A k \in 1..(j - 1) : s[k] # v
    IN  SubSeq(s, 1, i - 1) \o SubSeq(s, i + 1, Len(s))

InList(s, v) == \E i \in DOMAIN s : s[i] = v

\* The parse loops of slash_setup: the values of the tokens of `raw` whose
\* kind is in `kinds`, in order; unparseable tokens are skipped.
RECURSIVE ParseList(_, _)
ParseList(raw, kinds) ==
    IF raw = <<>> THEN <<>>
    ELSE LET p == parse_mention(Head(raw))
         IN  (IF p.kind \in kinds THEN <<p.val>> ELSE <<>>) \o ParseList(Tail(raw), kinds)

-----------------------------------------------------------------------------
(* Handlers.  Every command or interaction runs in a slot of h from its     *)
(* first statement to its last await.                                       *)

Idle == [pc |-> "idle"]

\* A handler starts in the lowest free slot the scenario allows.
CanStart(p) ==
    /\ p <= env.slots
    /\ h[p].pc = "idle"
    /\ \A q \in 1..(p - 1) : h[q].pc # "idle"

\* After its last store access a handler only awaits the messages it
\* sends (send_message, followup.send, edit_original_response):
\* Reply(p, r) leaves the handler of slot p sending response r.  Nothing
\* of the state changes after that, so scenarios with env.replies = FALSE
\* fold the sending into the step before it.
Reply(p, r) == h' = [h EXCEPT ![p] = IF env.replies THEN r ELSE Idle]

\* The response was sent: the handler is over.
\* The records `recs` of guild g leave the store by a completed close, owner
\* wipe or reset.
Removes(g, recs) ==
    removed' = IF env.track
               THEN removed \cup {[g |-> g, id |-> k, channel |-> recs[k].channel] :
                                     k \in DOMAIN recs}
               ELSE removed

ReplySent(p) ==
    /\ h[p].pc = "reply"
    /\ h' = [h EXCEPT ![p] = Idle]
    /\ UNCHANGED <<configFile, ticketsFile, chanGuild, liveChans, nextMsg, prompt, modal,
                   today, log, deleted, env, disk, removed>>

-----------------------------------------------------------------------------
(* is_manager applied to any actor and config.                             *)

\* The actors is_manager is called with: a guild member with its roles and
\* permissions, or an object that is not a Member (is_member = FALSE),
\* whose roles and permissions cannot be read.
Actors ==
    [id : Users, is_member : BOOLEAN, roles : SUBSET (1..NumActorRoles),
     manage_guild : BOOLEAN, administrator : BOOLEAN]

\* The configs is_manager is called with: unconfigured, or holding the two
\* allow-lists.
IdLists == {<<>>, <<1>>, <<2>>, <<1, 2>>}
ManagerCfgs ==
    {EmptyDict}
       \cup {Put(Put(EmptyDict, "allowed_roles", r), "allowed_users", us) :
                r \in IdLists, us \in IdLists}

\* is_manager(member, cfg) is called.
IsManagerCall(p, member, cfg) ==
    /\ CanStart(p)
    /\ Reply(p, [pc |-> "reply", op |-> "is_manager", member |-> member, cfg |-> cfg,
                 ret |-> is_manager(member, cfg)])
    /\ UNCHANGED <<configFile, ticketsFile, chanGuild, liveChans, nextMsg, prompt, modal,
                   today, log, deleted, env, disk, removed>>

-----------------------------------------------------------------------------
(* The file layer: safe_load, safe_save and the four store functions on    *)
(* any state of a backing file.  A file is absent, unparseable             *)
(* ("garbage": json.load raises JSONDecodeError), parseable with a top     *)
(* level that is not a mapping ("list"), or a mapping from guilds to       *)
(* entries; an entry is an object (Obj) or some other JSON value (NonObj). *)

AbsentFile == [kind |-> "absent"]
GarbageFile == [kind |-> "garbage"]
ListFile == [kind |-> "list"]
DictFile(data) == [kind |-> "dict", data |-> data]

Obj(x) == [isobj |-> TRUE, val |-> x]
NonObj == [isobj |-> FALSE]

\* The handler scenarios do not use the raw files.
NoDisk == [config |-> AbsentFile, tickets |-> AbsentFile]

\* safe_load(path, default): the file after the call (an absent file is
\* created holding the default) and the value returned.
safe_load(file, default) ==
    LET created == IF file.kind = "absent" THEN default ELSE file
    IN  [file |-> created,
         value |-> IF created.kind = "garbage" THEN default ELSE created]

\* safe_save(path, data): open(path, "w") truncates the file and json.dump
\* writes it; a write interrupted after it began ("torn") leaves an empty
\* or partial text, which does not parse.
safe_save(data, outcome) == IF outcome = "complete" THEN data ELSE GarbageFile

SaveOutcomes == {"complete", "torn"}

\* get_config(guild_id) on `file`: data.get raises when data is not a
\* mapping.
get_config_at(file, g) ==
    LET ld == safe_load(file, DictFile(EmptyDict))
    IN  IF ld.value.kind # "dict"
        THEN [file |-> ld.file, raised |-> TRUE, ret |-> NonObj]
        ELSE [file |-> ld.file, raised |-> FALSE,
              ret |-> Get(ld.value.data, g, Obj(EmptyDict))]

\* set_config(guild_id, cfg) on `file`: the item assignment raises when
\* data is not a mapping.
set_config_at(file, g, cfg, outcome) ==
    LET ld == safe_load(file, DictFile(EmptyDict))
        new == DictFile(Put(IF ld.value.kind = "dict" THEN ld.value.data ELSE EmptyDict,
                            g, Obj(cfg)))
    IN  IF ld.value.kind # "dict"
        THEN [file |-> ld.file, raised |-> TRUE, wrote |-> FALSE, new |-> new]
        ELSE [file |-> safe_save(new, outcome), raised |-> outcome # "complete",
              wrote |-> TRUE, new |-> new]

\* get_tickets(guild_id) on `file`.
get_tickets_at(file, g, outcome) ==
    LET ld == safe_load(file, DictFile(EmptyDict))
        data == IF ld.value.kind = "dict" THEN ld.value.data ELSE EmptyDict
        new == DictFile(Put(data, g, Obj(EmptyDict)))
    IN  IF g \notin DOMAIN data \/ ~data[g].isobj
        THEN [file |-> safe_save(new, outcome), raised |-> outcome # "complete",
              wrote |-> TRUE, new |-> new,
              ret |-> IF outcome = "complete" THEN Obj(EmptyDict) ELSE NonObj]
        ELSE [file |-> ld.file, raised |-> FALSE, wrote |-> FALSE, new |-> ld.file,
              ret |-> data[g]]

\* save_tickets(guild_id, tickets) on `file`.
save_tickets_at(file, g, tickets, outcome) ==
    LET ld == safe_load(file, DictFile(EmptyDict))
        data == IF ld.value.kind = "dict" THEN ld.value.data ELSE EmptyDict
        new == DictFile(Put(data, g, Obj(tickets)))
    IN  [file |-> safe_save(new, outcome), raised |-> outcome # "complete",
         wrote |-> TRUE, new |-> new]

\* The well-formed objects the file scenarios store.
FileObjects == {EmptyDict, [ticket_limit |-> 1]}

\* The states a backing file is found in.
FileEntries == {Obj(x) : x \in FileObjects} \cup {NonObj}
FileStates ==
    {AbsentFile, GarbageFile, ListFile}
       \cup {DictFile(d) : d \in UNION {[gs -> FileEntries] : gs \in SUBSET Guilds}}

\* get(collection, g) is called.
FileGet(p, coll, g, outcome) ==
    /\ CanStart(p)
    /\ LET r == IF coll = "config" THEN get_config_at(disk.config, g)
                ELSE get_tickets_at(disk.tickets, g, outcome)
       IN  /\ disk' = [disk EXCEPT ![coll] = r.file]
           /\ Reply(p, [pc |-> "reply", op |-> "get", coll |-> coll, g |-> g,
                        raised |-> r.raised, ret |-> r.ret,
                        torn |-> (coll = "tickets" /\ r.wrote /\ outcome = "torn"),
                        new |-> IF coll = "tickets" THEN r.new ELSE disk.config])
    /\ UNCHANGED <<configFile, ticketsFile, chanGuild, liveChans, nextMsg, prompt, modal,
                   today, log, deleted, env, removed>>

\* set(collection, g, x) is called.
FileSet(p, coll, g, x, outcome) ==
    /\ CanStart(p)
    /\ LET r == IF coll = "config" THEN set_config_at(disk.config, g, x, outcome)
                ELSE save_tickets_at(disk.tickets, g, x, outcome)
       IN  /\ disk' = [disk EXCEPT ![coll] = r.file]
           /\ Reply(p, [pc |-> "reply", op |-> "set", coll |-> coll, g |-> g, x |-> x,
                        raised |-> r.raised, torn |-> (r.wrote /\ outcome = "torn"),
                        new |-> r.new])
    /\ UNCHANGED <<configFile, ticketsFile, chanGuild, liveChans, nextMsg, prompt, modal,
                   today, log, deleted, env, removed>>

\* set(collection, g, x) immediately followed by get(collection, g), no
\* write failing.
FileSetThenGet(p, coll, g, x) ==
    /\ CanStart(p)
    /\ LET s == IF coll = "config" THEN set_config_at(disk.config, g, x, "complete")
                ELSE save_tickets_at(disk.tickets, g, x, "complete")
           r == IF coll = "config" THEN get_config_at(s.file, g)
                ELSE get_tickets_at(s.file, g, "complete")
       IN  /\ disk' = [disk EXCEPT ![coll] = r.file]
           /\ Reply(p, [pc |-> "reply", op |-> "set_get", coll |-> coll, g |-> g, x |-> x,
                        raised |-> (s.raised \/ r.raised), ret |-> r.ret])
    /\ UNCHANGED <<configFile, ticketsFile, chanGuild, liveChans, nextMsg, prompt, modal,
                   today, log, deleted, env, removed>>

-----------------------------------------------------------------------------
(* Ticket creation: TicketOpenView.on_button_click, TicketModal.on_submit   *)

\* The quota loop without its year and month test.
UserCountAllTime(tickets, user, now) ==
    Cardinality({k \in DOMAIN tickets : tickets[k].owner = user})

\* The quota loop of on_submit: tickets of `user` created in the year and
\* month of `now`.
UserCount(tickets, user, now) ==
    Cardinality({k \in DOMAIN tickets :
        /\ YearOf(tickets[k].created_at) = YearOf(now)
        /\ MonthOf(tickets[k].created_at) = MonthOf(now)
        /\ tickets[k].owner = user})

\* cfg.get("ticket_limit", 5)
TicketLimit(cfg) == Get(cfg, "ticket_limit", DefaultLimit)

\* The comparison with `>` in place of `>=`.
QuotaReachedStrict(user_count, limit) == user_count > limit

\* if user_count >= limit
QuotaReached(user_count, limit) == user_count >= limit

\* A ticket id "YYYYMMDD-NNN" is the pair of its day and its sequence
\* number; k.startswith(today) compares the day.
CountToday(tickets, now) == Cardinality({k \in DOMAIN tickets : k.day = now})

NewTicketId(tickets, now) == [day |-> now, seq |-> CountToday(tickets, now) + 1]

\* on_button_click: the modal is presented only where the prompt is the
\* configured one.
ButtonClick(g) ==
    /\ \E p \in Slots : CanStart(p)
    /\ prompt[g]
    /\ ~modal[g]
    /\ Get(get_config(g), "ticket_channel", 0) = LobbyChan(g)
    /\ modal' = [modal EXCEPT ![g] = TRUE]
    /\ UNCHANGED <<configFile, ticketsFile, chanGuild, liveChans, nextMsg, prompt,
                   today, h, log, deleted, env, disk, removed>>

\* on_submit up to `await guild.create_text_channel(...)`, or up to the
\* rejection it responds with.
Submit(p, g, u, len) ==
    /\ CanStart(p)
    /\ modal[g]
    /\ LET cfg == get_config(g)
           tickets == get_tickets(g)
           now == today
           user_count == UserCount(tickets, u, now)
           limit == TicketLimit(cfg)
       IN  /\ ticketsFile' = get_tickets_file(g)
           /\ IF QuotaReached(user_count, limit)
              THEN Reply(p, [pc |-> "reply", op |-> "submit", g |-> g, u |-> u,
                             out |-> "quota", limit |-> limit])
              ELSE IF len > MAX_TICKET_MESSAGE_LEN
              THEN Reply(p, [pc |-> "reply", op |-> "submit", g |-> g, u |-> u,
                             out |-> "too_long", limit |-> limit])
              ELSE h' = [h EXCEPT ![p] =
                           [pc |-> "create_wait", g |-> g, u |-> u, tickets |-> tickets,
                            now |-> now, ticket_id |-> NewTicketId(tickets, now),
                            content |-> len]]
    /\ UNCHANGED <<configFile, chanGuild, liveChans, nextMsg, prompt, modal, today,
                   log, deleted, env, disk, removed>>

\* create_text_channel succeeded: the record is added to the handler's
\* `tickets` object and that object is saved.
ProvisionOk(p) ==
    /\ h[p].pc = "create_wait"
    /\ Len(chanGuild) < env.maxChans
    /\ LET c == TicketChan(Len(chanGuild) + 1)
           rec == [owner |-> h[p].u, channel |-> c, message |-> h[p].content,
                   created_at |-> h[p].now]
           tickets == Put(h[p].tickets, h[p].ticket_id, rec)
       IN  /\ chanGuild' = Append(chanGuild, h[p].g)
           /\ liveChans' = liveChans \cup {c}
           /\ ticketsFile' = save_tickets(ticketsFile, h[p].g, tickets)
           /\ log' = [log EXCEPT ![h[p].g] = Append(@, h[p].ticket_id)]
           /\ Reply(p, [pc |-> "reply", op |-> "submit", g |-> h[p].g, u |-> h[p].u,
                        out |-> "created", id |-> h[p].ticket_id, channel |-> c])
    /\ UNCHANGED <<configFile, nextMsg, prompt, modal, today, deleted, env, disk, removed>>

\* A failure path that saves the record without a channel.
ProvisionFailPersists(p) ==
    /\ h[p].pc = "create_wait"
    /\ ticketsFile' = save_tickets(ticketsFile, h[p].g,
                          Put(h[p].tickets, h[p].ticket_id,
                              [owner |-> h[p].u, channel |-> 0, message |-> h[p].content,
                               created_at |-> h[p].now]))
    /\ Reply(p, [pc |-> "reply", op |-> "submit", g |-> h[p].g, u |-> h[p].u,
                 out |-> "failed"])
    /\ UNCHANGED <<configFile, chanGuild, liveChans, nextMsg, prompt, modal,
                   today, log, deleted, env, disk, removed>>

\* create_text_channel raised: nothing is persisted.
ProvisionFail(p) ==
    /\ h[p].pc = "create_wait"
    /\ Reply(p, [pc |-> "reply", op |-> "submit", g |-> h[p].g, u |-> h[p].u,
                 out |-> "failed"])
    /\ UNCHANGED <<configFile, ticketsFile, chanGuild, liveChans, nextMsg, prompt, modal,
                   today, log, deleted, env, disk, removed>>

-----------------------------------------------------------------------------
(* slash_setup                                                              *)

\* The cfg object of slash_setup before the prompt is posted.
SetupCfg(cfg, channel, ticket_limit, allowed, ping) ==
    LET c1 == Put(cfg, "ticket_channel", channel)
        c2 == Put(c1, "ticket_limit", IF ticket_limit > 1 THEN ticket_limit ELSE 1)
        c3 == Put(c2, "allowed_roles", ParseList(allowed, {"role"}))
        c4 == Put(c3, "allowed_users", ParseList(allowed, {"user", "id"}))
        c5 == Put(c4, "ping_roles", ParseList(ping, {"role"}))
    IN  Put(c5, "ping_users", ParseList(ping, {"user", "id"}))

\* slash_setup up to `await ticket_channel.send(...)`.
SetupStart(p, g, u, ticket_limit, allowed, ping) ==
    /\ CanStart(p)
    /\ IF ~Member(u).manage_guild /\ ~Member(u).administrator
       THEN Reply(p, [pc |-> "reply", op |-> "setup", g |-> g, u |-> u, out |-> "denied"])
       ELSE h' = [h EXCEPT ![p] =
                    [pc |-> "setup_send", g |-> g, u |-> u, ticket_limit |-> ticket_limit,
                     cfg |-> SetupCfg(get_config(g), LobbyChan(g), ticket_limit,
                                      allowed, ping)]]
    /\ UNCHANGED <<configFile, ticketsFile, chanGuild, liveChans, nextMsg, prompt, modal,
                   today, log, deleted, env, disk, removed>>

\* The prompt was posted (sent = TRUE) or the send raised; cfg is saved
\* either way.
SetupFinish(p, sent) ==
    /\ h[p].pc = "setup_send"
    /\ sent => nextMsg < MaxMsgs
    /\ LET cfg == IF sent THEN Put(h[p].cfg, "ticket_message_id", nextMsg + 1)
                  ELSE h[p].cfg
       IN  /\ configFile' = set_config(h[p].g, cfg)
           /\ nextMsg' = IF sent THEN nextMsg + 1 ELSE nextMsg
           /\ prompt' = IF sent THEN [prompt EXCEPT ![h[p].g] = TRUE] ELSE prompt
    /\ Reply(p, [pc |-> "reply", op |-> "setup", g |-> h[p].g, u |-> h[p].u,
                 out |-> "configured", ticket_limit |-> h[p].ticket_limit])
    /\ UNCHANGED <<ticketsFile, chanGuild, liveChans, modal, today, log, deleted, env, disk, removed>>

-----------------------------------------------------------------------------
(* on_ready, one guild of its loop                                          *)

\* Up to `await channel.send(...)`: only a configured guild without a
\* prompt message id gets a new prompt.
OnReadyStart(p, g) ==
    /\ CanStart(p)
    /\ LET cfg == get_config(g)
           ticket_chan_id == Get(cfg, "ticket_channel", 0)
       IN  /\ ticket_chan_id # 0
           /\ ChannelExists(g, ticket_chan_id)
           /\ Get(cfg, "ticket_message_id", 0) = 0
           /\ h' = [h EXCEPT ![p] = [pc |-> "ready_send", g |-> g, cfg |-> cfg]]
    /\ UNCHANGED <<configFile, ticketsFile, chanGuild, liveChans, nextMsg, prompt, modal,
                   today, log, deleted, env, disk, removed>>

\* The send returned: the cfg object loaded before it gets the message id
\* and is saved.  A failed send saves nothing.
OnReadySent(p, sent) ==
    /\ h[p].pc = "ready_send"
    /\ sent => nextMsg < MaxMsgs
    /\ IF sent
       THEN /\ configFile' = set_config(h[p].g,
                                Put(h[p].cfg, "ticket_message_id", nextMsg + 1))
            /\ nextMsg' = nextMsg + 1
            /\ prompt' = [prompt EXCEPT ![h[p].g] = TRUE]
       ELSE UNCHANGED <<configFile, nextMsg, prompt>>
    /\ h' = [h EXCEPT ![p] = Idle]
    /\ UNCHANGED <<ticketsFile, chanGuild, liveChans, modal, today, log, deleted, env, disk, removed>>

-----------------------------------------------------------------------------
(* addallowedrole, removeallowedrole, wipeconfig, wipeticketstatus: no      *)
(* await between their store reads and writes.                              *)

\* The cfg object addallowedrole saves.
AddAllowedCfg(cfg, parsed) ==
    LET key == IF parsed.kind = "role" THEN "allowed_roles" ELSE "allowed_users"
        lst == Get(cfg, key, <<>>)
    IN  Put(cfg, key, IF InList(lst, parsed.val) THEN lst ELSE Append(lst, parsed.val))

\* The cfg object removeallowedrole saves.
RemoveAllowedCfg(cfg, parsed) ==
    IF parsed.kind = "role" /\ "allowed_roles" \in DOMAIN cfg
       /\ InList(cfg["allowed_roles"], parsed.val)
    THEN Put(cfg, "allowed_roles", RemoveFirst(cfg["allowed_roles"], parsed.val))
    ELSE IF parsed.kind \in {"user", "id"} /\ "allowed_users" \in DOMAIN cfg
            /\ InList(cfg["allowed_users"], parsed.val)
    THEN Put(cfg, "allowed_users", RemoveFirst(cfg["allowed_users"], parsed.val))
    ELSE cfg

AddAllowed(p, g, u, item) ==
    /\ CanStart(p)
    /\ LET parsed == parse_mention(item)
           out == IF ~is_manager(Member(u), get_config(g)) THEN "denied"
                  ELSE IF parsed = NoMention THEN "unparsed" ELSE "added"
       IN  /\ configFile' = IF out = "added"
                            THEN set_config(g, AddAllowedCfg(get_config(g), parsed))
                            ELSE configFile
           /\ Reply(p, [pc |-> "reply", op |-> "addallowedrole", g |-> g, u |-> u,
                        out |-> out])
    /\ UNCHANGED <<ticketsFile, chanGuild, liveChans, nextMsg, prompt, modal, today,
                   log, deleted, env, disk, removed>>

RemoveAllowed(p, g, u, item) ==
    /\ CanStart(p)
    /\ LET parsed == parse_mention(item)
           out == IF ~is_manager(Member(u), get_config(g)) THEN "denied"
                  ELSE IF parsed = NoMention THEN "unparsed" ELSE "removed"
       IN  /\ configFile' = IF out = "removed"
                            THEN set_config(g, RemoveAllowedCfg(get_config(g), parsed))
                            ELSE configFile
           /\ Reply(p, [pc |-> "reply", op |-> "removeallowedrole", g |-> g, u |-> u,
                        out |-> out, item |-> item])
    /\ UNCHANGED <<ticketsFile, chanGuild, liveChans, nextMsg, prompt, modal, today,
                   log, deleted, env, disk, removed>>

\* The cfg object addpingedrole saves.
AddPingedCfg(cfg, parsed) ==
    LET key == IF parsed.kind = "role" THEN "ping_roles" ELSE "ping_users"
        lst == Get(cfg, key, <<>>)
    IN  Put(cfg, key, IF InList(lst, parsed.val) THEN lst ELSE Append(lst, parsed.val))

\* The cfg object removepingedrole saves.
RemovePingedCfg(cfg, parsed) ==
    IF parsed.kind = "role" /\ "ping_roles" \in DOMAIN cfg
       /\ InList(cfg["ping_roles"], parsed.val)
    THEN Put(cfg, "ping_roles", RemoveFirst(cfg["ping_roles"], parsed.val))
    ELSE IF parsed.kind \in {"user", "id"} /\ "ping_users" \in DOMAIN cfg
            /\ InList(cfg["ping_users"], parsed.val)
    THEN Put(cfg, "ping_users", RemoveFirst(cfg["ping_users"], parsed.val))
    ELSE cfg

AddPinged(p, g, u, item) ==
    /\ CanStart(p)
    /\ LET parsed == parse_mention(item)
           out == IF ~is_manager(Member(u), get_config(g)) THEN "denied"
                  ELSE IF parsed = NoMention THEN "unparsed" ELSE "added"
       IN  /\ configFile' = IF out = "added"
                            THEN set_config(g, AddPingedCfg(get_config(g), parsed))
                            ELSE configFile
           /\ Reply(p, [pc |-> "reply", op |-> "addpingedrole", g |-> g, u |-> u,
                        out |-> out])
    /\ UNCHANGED <<ticketsFile, chanGuild, liveChans, nextMsg, prompt, modal, today,
                   log, deleted, env, disk, removed>>

RemovePinged(p, g, u, item) ==
    /\ CanStart(p)
    /\ LET parsed == parse_mention(item)
           out == IF ~is_manager(Member(u), get_config(g)) THEN "denied"
                  ELSE IF parsed = NoMention THEN "unparsed" ELSE "removed"
       IN  /\ configFile' = IF out = "removed"
                            THEN set_config(g, RemovePingedCfg(get_config(g), parsed))
                            ELSE configFile
           /\ Reply(p, [pc |-> "reply", op |-> "removepingedrole", g |-> g, u |-> u,
                        out |-> out, item |-> item])
    /\ UNCHANGED <<ticketsFile, chanGuild, liveChans, nextMsg, prompt, modal, today,
                   log, deleted, env, disk, removed>>

\* A config wipe that also drops the guild's ticket records.
WipeConfigAndTickets(p, g, u) ==
    /\ CanStart(p)
    /\ IF ~Member(u).administrator
       THEN /\ UNCHANGED <<configFile, ticketsFile>>
            /\ Reply(p, [pc |-> "reply", op |-> "wipeconfig", g |-> g, u |-> u,
                         out |-> "denied"])
       ELSE /\ configFile' = set_config(g, EmptyDict)
            /\ ticketsFile' = save_tickets(get_tickets_file(g), g, EmptyDict)
            /\ Reply(p, [pc |-> "reply", op |-> "wipeconfig", g |-> g, u |-> u,
                         out |-> "wiped"])
    /\ UNCHANGED <<chanGuild, liveChans, nextMsg, prompt, modal, today,
                   log, deleted, env, disk, removed>>

WipeConfig(p, g, u) ==
    /\ CanStart(p)
    /\ IF ~Member(u).administrator
       THEN /\ UNCHANGED configFile
            /\ Reply(p, [pc |-> "reply", op |-> "wipeconfig", g |-> g, u |-> u,
                         out |-> "denied"])
       ELSE /\ configFile' = set_config(g, EmptyDict)
            /\ Reply(p, [pc |-> "reply", op |-> "wipeconfig", g |-> g, u |-> u,
                         out |-> "wiped"])
    /\ UNCHANGED <<ticketsFile, chanGuild, liveChans, nextMsg, prompt, modal, today,
                   log, deleted, env, disk, removed>>

\* A wipe that keeps no record at all.
WipeEveryOwner(tickets, target) == EmptyDict

\* The tickets object wipeticketstatus saves: the records of other owners.
WipeOwner(tickets, target) ==
    [k \in {j \in DOMAIN tickets : tickets[j].owner # target} |-> tickets[k]]

WipeTickets(p, g, u, target) ==
    /\ CanStart(p)
    /\ IF ~is_manager(Member(u), get_config(g))
       THEN /\ UNCHANGED <<ticketsFile, deleted, removed>>
            /\ Reply(p, [pc |-> "reply", op |-> "wipeticketstatus", g |-> g, u |-> u,
                         out |-> "denied", target |-> target, removed |-> 0])
       ELSE LET tickets == get_tickets(g)
                kept == WipeOwner(tickets, target)
            IN  /\ ticketsFile' = save_tickets(get_tickets_file(g), g, kept)
                /\ deleted' = [deleted EXCEPT ![g] = TRUE]
                /\ Removes(g, [k \in DOMAIN tickets \ DOMAIN kept |-> tickets[k]])
                /\ Reply(p, [pc |-> "reply", op |-> "wipeticketstatus", g |-> g, u |-> u,
                             out |-> "wiped", target |-> target,
                             removed |-> Cardinality(DOMAIN tickets)
                                         - Cardinality(DOMAIN kept)])
    /\ UNCHANGED <<configFile, chanGuild, liveChans, nextMsg, prompt, modal, today,
                   log, env, disk>>

-----------------------------------------------------------------------------
(* slash_close                                                              *)

\* The lookup matching a record's owner against the channel id.
TicketsOfOwner(tickets, c) == {k \in DOMAIN tickets : tickets[k].owner = c}

\* The ids of the records whose channel is `c` (the loop takes the first).
TicketsOfChannel(tickets, c) == {k \in DOMAIN tickets : tickets[k].channel = c}

\* if interaction.user.id != owner_id and not is_manager(interaction.user, cfg)
CloseDenied(u, owner_id, cfg) == u # owner_id /\ ~is_manager(Member(u), cfg)

\* slash_close from its store reads to the first await after them.  The
\* command was invoked in channel c, which existed then (it may have been
\* deleted during `await interaction.response.defer`).
CloseRead(p, g, c, u) ==
    /\ CanStart(p)
    /\ c \in CreatedChans(g) \cup {LobbyChan(g)}
    /\ LET cfg == get_config(g)
           tickets == get_tickets(g)
           found == TicketsOfChannel(tickets, c)
       IN  /\ ticketsFile' = get_tickets_file(g)
           /\ IF found = {}
              THEN Reply(p, [pc |-> "reply", op |-> "close", g |-> g, u |-> u,
                             out |-> "not_tracked", channel |-> c])
              ELSE \E ticket_id \in found :
                     IF CloseDenied(u, tickets[ticket_id].owner, cfg)
                     THEN Reply(p, [pc |-> "reply", op |-> "close", g |-> g, u |-> u,
                                    out |-> "denied", channel |-> c])
                     ELSE h' = [h EXCEPT ![p] =
                                  [pc |-> "close_wait", g |-> g, u |-> u, channel |-> c,
                                   tickets |-> tickets, ticket_id |-> ticket_id]]
    /\ UNCHANGED <<configFile, chanGuild, liveChans, nextMsg, prompt, modal, today,
                   log, deleted, env, disk, removed>>

\* The owner notification and `interaction.channel.delete()` returned
\* (each may have raised); the record is popped from the handler's
\* `tickets` object and that object is saved.
CloseFinish(p, notified, channel_deleted) ==
    /\ h[p].pc = "close_wait"
    /\ liveChans' = IF channel_deleted THEN liveChans \ {h[p].channel} ELSE liveChans
    /\ ticketsFile' = save_tickets(ticketsFile, h[p].g, Pop(h[p].tickets, h[p].ticket_id))
    /\ deleted' = [deleted EXCEPT ![h[p].g] = TRUE]
    /\ Removes(h[p].g, [k \in {h[p].ticket_id} |-> h[p].tickets[k]])
    /\ Reply(p, [pc |-> "reply", op |-> "close", g |-> h[p].g, u |-> h[p].u,
                 out |-> "closed", channel |-> h[p].channel])
    /\ UNCHANGED <<configFile, chanGuild, nextMsg, prompt, modal, today, log, env, disk>>

-----------------------------------------------------------------------------
(* ResetConfirmView and slash_reset                                         *)

\* A view is Pending while its wait is not released; value is then None.
\* slash_reset up to `await view.wait()`: the view is created with
\* value = None and a timeout of ViewTimeout.
ResetStart(p, g, u) ==
    /\ CanStart(p)
    /\ IF ~Member(u).administrator
       THEN Reply(p, [pc |-> "reply", op |-> "reset", g |-> g, u |-> u, out |-> "denied"])
       ELSE h' = [h EXCEPT ![p] =
                    [pc |-> "reset_wait", g |-> g, u |-> u, value |-> "None",
                     stopped |-> FALSE, timer |-> ViewTimeout]]
    /\ UNCHANGED <<configFile, ticketsFile, chanGuild, liveChans, nextMsg, prompt, modal,
                   today, log, deleted, env, disk, removed>>

\* A check that lets every actor through.
interaction_check_any(author, actor) == TRUE

\* interaction_check(interaction) of the view of `author`.
interaction_check(author, actor) == actor = author

\* A click on Confirm (button = "confirm") or Cancel (button = "cancel") of
\* the view of slot v by `actor`, handled in slot p: interaction_check, then
\* the button's callback.
ViewClick(p, v, actor, button) ==
    /\ CanStart(p)
    /\ h[v].pc = "reset_wait"
    /\ ~h[v].stopped
    /\ IF ~interaction_check(h[v].u, actor)
       THEN Reply(p, [pc |-> "reply", op |-> "click", g |-> h[v].g, u |-> actor,
                      out |-> "rejected", view |-> v, button |-> button])
       ELSE h' = [h EXCEPT
                    ![v].value = IF button = "confirm" THEN "True" ELSE "False",
                    ![v].stopped = TRUE,
                    ![p] = IF env.replies
                           THEN [pc |-> "reply", op |-> "click", g |-> h[v].g, u |-> actor,
                                 out |-> "accepted", view |-> v, button |-> button]
                           ELSE Idle]
    /\ UNCHANGED <<configFile, ticketsFile, chanGuild, liveChans, nextMsg, prompt, modal,
                   today, log, deleted, env, disk, removed>>

\* TickUnits time units pass: every waiting view's timer runs down.  Time
\* does not pass a view's expiry before its timeout is dispatched.
TimerTick ==
    /\ \E p \in Slots : h[p].pc = "reset_wait" /\ ~h[p].stopped
    /\ \A p \in Slots : (h[p].pc = "reset_wait" /\ ~h[p].stopped) => h[p].timer > 0
    /\ h' = [p \in Slots |->
               IF h[p].pc = "reset_wait" /\ ~h[p].stopped
               THEN [h[p] EXCEPT !.timer = IF @ > TickUnits THEN @ - TickUnits ELSE 0]
               ELSE h[p]]
    /\ UNCHANGED <<configFile, ticketsFile, chanGuild, liveChans, nextMsg, prompt, modal,
                   today, log, deleted, env, disk, removed>>

\* The view's timeout: the wait is released with value still None.
ViewExpire(p) ==
    /\ h[p].pc = "reset_wait"
    /\ ~h[p].stopped
    /\ h[p].timer = 0
    /\ h' = [h EXCEPT ![p].stopped = TRUE]
    /\ UNCHANGED <<configFile, ticketsFile, chanGuild, liveChans, nextMsg, prompt, modal,
                   today, log, deleted, env, disk, removed>>

\* The records of `todo` whose channel guild.get_channel still finds.
Deletable(g, todo, live) ==
    {r \in todo : r.channel = LobbyChan(g) \/ (r.channel \in live /\ r.channel \in CreatedChans(g))}

\* The reset loop from a resumption to its next `await ch.delete()`:
\* records without a channel are skipped; when no record with a channel is
\* left both collections of the guild are cleared.
ResetContinue(p, g, u, todo, file, live) ==
    IF Deletable(g, todo, live) = {}
    THEN /\ ticketsFile' = save_tickets(file, g, EmptyDict)
         /\ configFile' = set_config(g, EmptyDict)
         /\ deleted' = [deleted EXCEPT ![g] = TRUE]
         /\ Removes(g, Get(file, g, EmptyDict))
         /\ Reply(p, [pc |-> "reply", op |-> "reset", g |-> g, u |-> u,
                      out |-> "Confirmed"])
    ELSE \E r \in Deletable(g, todo, live) :
         /\ ticketsFile' = file
         /\ UNCHANGED <<configFile, deleted, removed>>
         /\ h' = [h EXCEPT ![p] =
                    [pc |-> "reset_sweep", g |-> g, u |-> u, cur |-> r,
                     todo |-> Deletable(g, todo, live) \ {r}]]

\* The branches with a cancellation taken for a confirmation.
OutcomeUnlessTimedOut(value) ==
    IF value = "None" THEN "TimedOut" ELSE "Confirmed"

\* The branches with a timeout taken for a confirmation.
OutcomeUnlessCancelled(value) ==
    IF value = "False" THEN "Cancelled" ELSE "Confirmed"

\* What slash_reset does with view.value once view.wait() returned: the
\* branches `view.value is None`, `view.value` and else.
Outcome(value) ==
    IF value = "None" THEN "TimedOut"
    ELSE IF value = "True" THEN "Confirmed" ELSE "Cancelled"

\* view.wait() returned.
ResetResume(p) ==
    /\ h[p].pc = "reset_wait"
    /\ h[p].stopped
    /\ IF Outcome(h[p].value) = "Confirmed"
       THEN LET tickets == get_tickets(h[p].g)
                todo == {tickets[k] : k \in DOMAIN tickets}
            IN  ResetContinue(p, h[p].g, h[p].u, todo, get_tickets_file(h[p].g), liveChans)
       ELSE /\ Reply(p, [pc |-> "reply", op |-> "reset", g |-> h[p].g, u |-> h[p].u,
                         out |-> Outcome(h[p].value)])
            /\ UNCHANGED <<configFile, ticketsFile, deleted, removed>>
    /\ UNCHANGED <<chanGuild, liveChans, nextMsg, prompt, modal, today, log, env, disk>>

\* A sweep that a raising `ch.delete()` ends: nothing is cleared.
ResetSweepStopsOnFailure(p, channel_deleted) ==
    /\ h[p].pc = "reset_sweep"
    /\ IF channel_deleted
       THEN /\ liveChans' = liveChans \ {h[p].cur.channel}
            /\ ResetContinue(p, h[p].g, h[p].u, h[p].todo, ticketsFile, liveChans')
       ELSE /\ Reply(p, [pc |-> "reply", op |-> "reset", g |-> h[p].g, u |-> h[p].u,
                         out |-> "Failed"])
            /\ UNCHANGED <<configFile, ticketsFile, liveChans, deleted, removed>>
    /\ UNCHANGED <<chanGuild, nextMsg, prompt, modal, today, log, env, disk>>

\* `await ch.delete()` of the reset loop returned or raised.
ResetSweep(p, channel_deleted) ==
    /\ h[p].pc = "reset_sweep"
    /\ LET live == IF channel_deleted THEN liveChans \ {h[p].cur.channel} ELSE liveChans
       IN  /\ liveChans' = live
           /\ ResetContinue(p, h[p].g, h[p].u, h[p].todo, ticketsFile, live)
    /\ UNCHANGED <<chanGuild, nextMsg, prompt, modal, today, log, env, disk>>

-----------------------------------------------------------------------------
(* The clock                                                                *)

NextDay ==
    /\ today < env.maxDay
    /\ today' = today + 1
    /\ UNCHANGED <<configFile, ticketsFile, chanGuild, liveChans, nextMsg, prompt, modal,
                   h, log, deleted, env, disk, removed>>

-----------------------------------------------------------------------------
(* Specifications                                                           *)

ContentLens == {MAX_TICKET_MESSAGE_LEN}

SetupLimits == 0..MaxSetupLimit

\* Channel ids a command can be invoked in.
ChanIds == 1..(NumGuilds + MaxChansSeq + 1)

\* After the module is imported on a fresh install: both files hold {}.
InitFresh ==
    /\ configFile = EmptyDict
    /\ ticketsFile = EmptyDict
    /\ chanGuild = <<>>
    /\ liveChans = {}
    /\ nextMsg = 0
    /\ prompt = [g \in Guilds |-> FALSE]
    /\ modal = [g \in Guilds |-> FALSE]
    /\ today = 1
    /\ h = [p \in Slots |-> Idle]
    /\ log = [g \in Guilds |-> <<>>]
    /\ deleted = [g \in Guilds |-> FALSE]
    /\ disk = NoDisk
    /\ removed = {}

\* The config.json an earlier run left: every guild was set up with quota
\* `limit` (guild 1 with role 1 allowed), its prompt is posted and its
\* modal has been presented.
SetUpCfg(g, limit) ==
    Put(SetupCfg(EmptyDict, LobbyChan(g), limit,
                 IF g = 1 THEN <<RoleToken(1)>> ELSE <<>>, <<>>),
        "ticket_message_id", g)

InitSetUp(limit) ==
    /\ configFile = [g \in Guilds |-> SetUpCfg(g, limit)]
    /\ ticketsFile = EmptyDict
    /\ chanGuild = <<>>
    /\ liveChans = {}
    /\ nextMsg = NumGuilds
    /\ prompt = [g \in Guilds |-> TRUE]
    /\ modal = [g \in Guilds |-> TRUE]
    /\ today = 1
    /\ h = [p \in Slots |-> Idle]
    /\ log = [g \in Guilds |-> <<>>]
    /\ deleted = [g \in Guilds |-> FALSE]
    /\ disk = NoDisk
    /\ removed = {}

\* Spec: the ticket lifecycle of guilds that are set up, handlers
\* interleaving at their awaits.
Init ==
    /\ \E limit \in 1..MaxSetupLimit : InitSetUp(limit)
    /\ env = [slots |-> NumSlots, maxChans |-> MaxChans, maxDay |-> 1,
              replies |-> FALSE, track |-> FALSE]

Next ==
    \/ \E p \in Slots, g \in Guilds, u \in Customers, len \in ContentLens : Submit(p, g, u, len)
    \/ \E p \in Slots : ProvisionOk(p)
    \/ \E p \in Slots : ProvisionFail(p)
    \/ \E p \in Slots, g \in Guilds, u \in Users, target \in Users : WipeTickets(p, g, u, target)
    \/ \E p \in Slots, g \in Guilds, u \in Users, c \in ChanIds : CloseRead(p, g, c, u)
    \/ \E p \in Slots, n \in BOOLEAN, d \in BOOLEAN : CloseFinish(p, n, d)

Spec == Init /\ [][Next]_vars

\* SpecSeq: the same guilds, every command running to completion (its
\* response included) before the next starts.
InitSeq ==
    /\ \E limit \in 1..MaxSetupLimit : InitSetUp(limit)
    /\ env = [slots |-> 1, maxChans |-> MaxChansSeq, maxDay |-> MaxDaySeq,
              replies |-> TRUE, track |-> FALSE]

NextSeq ==
    \/ \E p \in Slots, g \in Guilds, u \in Customers, len \in ContentLens : Submit(p, g, u, len)
    \/ \E p \in Slots : ProvisionOk(p)
    \/ \E p \in Slots : ProvisionFail(p)
    \/ \E p \in Slots, g \in Guilds, u \in Users, target \in Users : WipeTickets(p, g, u, target)
    \/ \E p \in Slots, g \in Guilds, u \in Users, c \in ChanIds : CloseRead(p, g, c, u)
    \/ \E p \in Slots, n \in BOOLEAN, d \in BOOLEAN : CloseFinish(p, n, d)
    \/ \E p \in Slots : ReplySent(p)
    \/ NextDay

SpecSeq == InitSeq /\ [][NextSeq]_vars

\* SpecQuota: one guild over several months, its configuration possibly
\* wiped, every command running to completion.
QuotaGuild == CHOOSE g \in Guilds : \A g2 \in Guilds : g <= g2

InitQuota ==
    /\ \E limit \in 1..MaxSetupLimit : InitSetUp(limit)
    /\ env = [slots |-> 1, maxChans |-> MaxChansQuota, maxDay |-> MaxDayQuota,
              replies |-> TRUE, track |-> FALSE]

NextQuota ==
    \/ \E p \in Slots, u \in Customers, len \in ContentLens : Submit(p, QuotaGuild, u, len)
    \/ \E p \in Slots : ProvisionOk(p)
    \/ \E p \in Slots : ProvisionFail(p)
    \/ \E p \in Slots, u \in Users : WipeConfig(p, QuotaGuild, u)
    \/ \E p \in Slots : ReplySent(p)
    \/ NextDay

SpecQuota == InitQuota /\ [][NextQuota]_vars

\* SpecReset: one guild whose tickets are created and reset, clicks and
\* the view's timer interleaving with the waiting reset command.
ResetGuild == QuotaGuild

InitReset ==
    /\ InitSetUp(MaxSetupLimit)
    /\ env = [slots |-> NumSlots, maxChans |-> MaxChansReset, maxDay |-> 1,
              replies |-> TRUE, track |-> FALSE]

NextReset ==
    \/ \E p \in Slots, g \in Guilds, u \in Customers, len \in ContentLens : Submit(p, g, u, len)
    \/ \E p \in Slots : ProvisionOk(p)
    \/ \E p \in Slots : ProvisionFail(p)
    \/ \E p \in Slots, u \in Users : ResetStart(p, ResetGuild, u)
    \/ \E p \in Slots, v \in Slots, actor \in Users, button \in {"confirm", "cancel"} :
          ViewClick(p, v, actor, button)
    \/ TimerTick
    \/ \E p \in Slots : ViewExpire(p)
    \/ \E p \in Slots : ResetResume(p)
    \/ \E p \in Slots, d \in BOOLEAN : ResetSweep(p, d)
    \/ \E p \in Slots : ReplySent(p)

SpecReset == InitReset /\ [][NextReset]_vars

\* The scheduling of the event loop: a response being sent completes, a
\* pending channel request returns, time passes, an expired view is
\* dispatched and a released wait resumes.
FairReset ==
    /\ SpecReset
    /\ \A p \in Slots :
          /\ WF_vars(ReplySent(p))
          /\ WF_vars(ProvisionOk(p) \/ ProvisionFail(p))
          /\ WF_vars(ViewExpire(p))
          /\ WF_vars(ResetResume(p))
          /\ WF_vars(\E d \in BOOLEAN : ResetSweep(p, d))
    /\ WF_vars(TimerTick)

\* SpecAdmin: the commands of one guild, tickets included, every command
\* running to completion; a reset is left to time out.
AdminGuild == QuotaGuild

InitAdmin ==
    /\ InitSetUp(MaxSetupLimit)
    /\ env = [slots |-> 1, maxChans |-> MaxChansAdmin, maxDay |-> 1, replies |-> TRUE, track |-> FALSE]

NextAdmin ==
    \/ \E p \in Slots, u \in Customers, len \in ContentLens : Submit(p, AdminGuild, u, len)
    \/ \E p \in Slots : ProvisionOk(p)
    \/ \E p \in Slots : ProvisionFail(p)
    \/ \E p \in Slots, u \in Users, lim \in SetupLimits, a \in SetupLists :
          SetupStart(p, AdminGuild, u, lim, a, <<>>)
    \/ \E p \in Slots, sent \in BOOLEAN : SetupFinish(p, sent)
    \/ \E p \in Slots, u \in Users, item \in Tokens : AddAllowed(p, AdminGuild, u, item)
    \/ \E p \in Slots, u \in Users, item \in Tokens : RemoveAllowed(p, AdminGuild, u, item)
    \/ \E p \in Slots, u \in Users, item \in Tokens : AddPinged(p, AdminGuild, u, item)
    \/ \E p \in Slots, u \in Users, item \in Tokens : RemovePinged(p, AdminGuild, u, item)
    \/ \E p \in Slots, u \in Users : WipeConfig(p, AdminGuild, u)
    \/ \E p \in Slots, u \in Users, target \in Users : WipeTickets(p, AdminGuild, u, target)
    \/ \E p \in Slots, u \in Users, c \in ChanIds : CloseRead(p, AdminGuild, c, u)
    \/ \E p \in Slots, n \in BOOLEAN, d \in BOOLEAN : CloseFinish(p, n, d)
    \/ \E p \in Slots, u \in Users : ResetStart(p, AdminGuild, u)
    \/ TimerTick
    \/ \E p \in Slots : ViewExpire(p)
    \/ \E p \in Slots : ResetResume(p)
    \/ \E p \in Slots : ReplySent(p)

SpecAdmin == InitAdmin /\ [][NextAdmin]_vars

\* SpecStore: writes to both collections for every guild, handlers
\* interleaving at their awaits.
InitStore ==
    /\ InitSetUp(MaxSetupLimit)
    /\ env = [slots |-> NumSlots, maxChans |-> MaxChansStore, maxDay |-> 1,
              replies |-> FALSE, track |-> FALSE]

NextStore ==
    \/ \E p \in Slots, g \in Guilds, u \in Customers, len \in ContentLens : Submit(p, g, u, len)
    \/ \E p \in Slots : ProvisionOk(p)
    \/ \E p \in Slots : ProvisionFail(p)
    \/ \E p \in Slots, g \in Guilds, u \in Users :
          SetupStart(p, g, u, SetupDefaultLimit, <<>>, <<>>)
    \/ \E p \in Slots, sent \in BOOLEAN : SetupFinish(p, sent)
    \/ \E p \in Slots, g \in Guilds, u \in Users : WipeConfig(p, g, u)
    \/ \E p \in Slots, g \in Guilds, u \in Users, target \in Users : WipeTickets(p, g, u, target)

SpecStore == InitStore /\ [][NextStore]_vars

\* SpecFile: the store functions applied, one call at a time, to backing
\* files found in any state.
InitFile ==
    /\ configFile = EmptyDict
    /\ ticketsFile = EmptyDict
    /\ chanGuild = <<>>
    /\ liveChans = {}
    /\ nextMsg = 0
    /\ prompt = [g \in Guilds |-> FALSE]
    /\ modal = [g \in Guilds |-> FALSE]
    /\ today = 1
    /\ h = [p \in Slots |-> Idle]
    /\ log = [g \in Guilds |-> <<>>]
    /\ deleted = [g \in Guilds |-> FALSE]
    /\ env = [slots |-> 1, maxChans |-> 0, maxDay |-> 1, replies |-> TRUE, track |-> FALSE]
    /\ disk \in [config : FileStates, tickets : FileStates]
    /\ removed = {}

NextFile ==
    \/ \E p \in Slots, coll \in {"config", "tickets"}, g \in Guilds, o \in SaveOutcomes :
          FileGet(p, coll, g, o)
    \/ \E p \in Slots, coll \in {"config", "tickets"}, g \in Guilds, x \in FileObjects,
          o \in SaveOutcomes : FileSet(p, coll, g, x, o)
    \/ \E p \in Slots, coll \in {"config", "tickets"}, g \in Guilds, x \in FileObjects :
          FileSetThenGet(p, coll, g, x)
    \/ \E p \in Slots : ReplySent(p)

SpecFile == InitFile /\ [][NextFile]_vars

\* SpecManager: is_manager applied, one call at a time, to every actor and
\* config.
InitManager ==
    /\ InitFresh
    /\ env = [slots |-> 1, maxChans |-> 0, maxDay |-> 1, replies |-> TRUE, track |-> FALSE]

NextManager ==
    \/ \E p \in Slots, member \in Actors, cfg \in ManagerCfgs : IsManagerCall(p, member, cfg)
    \/ \E p \in Slots : ReplySent(p)

SpecManager == InitManager /\ [][NextManager]_vars

\* SpecLists: setup and the four list commands on one guild, one command
\* at a time, from an unconfigured guild.
InitLists ==
    /\ InitFresh
    /\ env = [slots |-> 1, maxChans |-> 0, maxDay |-> 1, replies |-> TRUE, track |-> FALSE]

NextLists ==
    \/ \E p \in Slots, u \in Users, a \in SetupListsRepeated, pg \in SetupListsRepeated :
          SetupStart(p, AdminGuild, u, SetupDefaultLimit, a, pg)
    \/ \E p \in Slots, sent \in BOOLEAN : SetupFinish(p, sent)
    \/ \E p \in Slots, u \in Users, item \in Tokens : AddAllowed(p, AdminGuild, u, item)
    \/ \E p \in Slots, u \in Users, item \in Tokens : RemoveAllowed(p, AdminGuild, u, item)
    \/ \E p \in Slots, u \in Users, item \in Tokens : AddPinged(p, AdminGuild, u, item)
    \/ \E p \in Slots, u \in Users, item \in Tokens : RemovePinged(p, AdminGuild, u, item)
    \/ \E p \in Slots : ReplySent(p)

SpecLists == InitLists /\ [][NextLists]_vars

\* SpecRemoval: creations, closes, owner wipes and resets of one guild in
\* concurrent slots, with the history of the records they removed.
RemovalGuild == QuotaGuild

InitRemoval ==
    /\ InitSetUp(MaxSetupLimit)
    /\ env = [slots |-> NumSlots, maxChans |-> MaxChansRemoval, maxDay |-> 1,
              replies |-> FALSE, track |-> TRUE]

NextRemoval ==
    \/ \E p \in Slots, u \in Customers, len \in ContentLens : Submit(p, RemovalGuild, u, len)
    \/ \E p \in Slots : ProvisionOk(p)
    \/ \E p \in Slots : ProvisionFail(p)
    \/ \E p \in Slots, u \in Users, target \in Users : WipeTickets(p, RemovalGuild, u, target)
    \/ \E p \in Slots, u \in Users, c \in ChanIds : CloseRead(p, RemovalGuild, c, u)
    \/ \E p \in Slots, n \in BOOLEAN, d \in BOOLEAN : CloseFinish(p, n, d)
    \/ \E p \in Slots, u \in Users : ResetStart(p, RemovalGuild, u)
    \/ \E p \in Slots, v \in Slots, actor \in Users, button \in {"confirm", "cancel"} :
          ViewClick(p, v, actor, button)
    \/ \E p \in Slots : ResetResume(p)
    \/ \E p \in Slots, d \in BOOLEAN : ResetSweep(p, d)

SpecRemoval == InitRemoval /\ [][NextRemoval]_vars

-----------------------------------------------------------------------------
(* Properties                                                               *)

\* The ticket records of guild g in tickets.json.
Tickets(g) == Get(ticketsFile, g, EmptyDict)

\* The ids creations of guild g completed with on day d, in order.
AllocatedOn(g, d) == SelectSeq(log[g], LAMBDA k : k.day = d)

\* C1: as long as nothing was deleted in a guild, after N creations of the
\* guild completed on a day, the store holds for that day exactly the N
\* records with sequence numbers 1..N, whatever the interleaving.
AllocCollisionFree ==
    \A g \in Guilds : ~deleted[g] =>
        \A d \in 1..MaxDayQuota :
            {k \in DOMAIN Tickets(g) : k.day = d}
              = {[day |-> d, seq |-> i] : i \in 1..Len(AllocatedOn(g, d))}

\* C2: no id is allocated twice in a guild, also not after its ticket was
\* removed.
NoSeqReuse ==
    \A g \in Guilds : \A i, j \in 1..Len(log[g]) : i # j => log[g][i] # log[g][j]

\* The number of records of guild g owned by u and created in month m of
\* year y.
OwnedInMonth(g, u, y, m) ==
    Cardinality({k \in DOMAIN Tickets(g) :
                   /\ Tickets(g)[k].owner = u
                   /\ YearOf(Tickets(g)[k].created_at) = y
                   /\ MonthOf(Tickets(g)[k].created_at) = m})

\* The guild's configured quota.
ConfiguredLimit(g) ==
    IF g \in DOMAIN configFile /\ "ticket_limit" \in DOMAIN configFile[g]
    THEN configFile[g]["ticket_limit"] ELSE DefaultLimit

\* C3: no user owns more records created in one calendar month than the
\* guild's quota, in every reachable state of interleaved submissions.
QuotaInvariant ==
    \A g \in Guilds, u \in Users, d \in 1..MaxDayQuota :
        OwnedInMonth(g, u, YearOf(d), MonthOf(d)) <= ConfiguredLimit(g)

\* A user is at the quota while another submission of theirs, which passed
\* the quota check, is awaiting its channel.
QuotaFullWhileOverlapping ==
    \E p \in Slots :
        /\ h[p].pc = "create_wait"
        /\ OwnedInMonth(h[p].g, h[p].u, YearOf(today), MonthOf(today))
             = ConfiguredLimit(h[p].g)

\* A step in which slot p runs on_submit from its start to its first await.
SubmitStep(p) ==
    /\ h[p].pc = "idle"
    /\ \/ h'[p].pc = "create_wait"
       \/ h'[p].pc = "reply" /\ h'[p].op = "submit"

\* C4: a submission is rejected for quota, with the limit reported, exactly
\* when the submitter owns at least ticketLimit (5 when unconfigured)
\* records created in the current year and month; a rejected submission
\* requests no channel and persists no record.
QuotaDecision ==
    [][\A p \in Slots : SubmitStep(p) =>
          LET g == h'[p].g
              n == OwnedInMonth(g, h'[p].u, YearOf(today), MonthOf(today))
              rejected == h'[p].pc = "reply" /\ h'[p].out = "quota"
          IN  /\ rejected <=> n >= ConfiguredLimit(g)
              /\ rejected => h'[p].limit = ConfiguredLimit(g)
              /\ ~rejected => h'[p].pc = "create_wait"
              /\ rejected => /\ chanGuild' = chanGuild
                             /\ \A g2 \in Guilds :
                                   Get(ticketsFile', g2, EmptyDict) = Tickets(g2)]_vars

\* A submission is rejected at the configured limit although the guild
\* holds more records than the limit: the submitter's from an earlier
\* month and another owner's from this month.
QuotaRejectedOthersNotCounted ==
    \E p \in Slots :
        /\ h[p].pc = "reply" /\ h[p].op = "submit" /\ h[p].out = "quota"
        /\ h[p].limit = ConfiguredLimit(h[p].g)
        /\ OwnedInMonth(h[p].g, h[p].u, YearOf(today), MonthOf(today)) = h[p].limit
        /\ \E k \in DOMAIN Tickets(h[p].g) :
              /\ Tickets(h[p].g)[k].owner = h[p].u
              /\ MonthOf(Tickets(h[p].g)[k].created_at) # MonthOf(today)
        /\ \E k \in DOMAIN Tickets(h[p].g) : Tickets(h[p].g)[k].owner # h[p].u

\* A submission is rejected at the default limit of an unconfigured guild.
QuotaRejectedAtDefault ==
    \E p \in Slots :
        /\ h[p].pc = "reply" /\ h[p].op = "submit" /\ h[p].out = "quota"
        /\ h[p].g \notin DOMAIN configFile \/ "ticket_limit" \notin DOMAIN configFile[h[p].g]
        /\ h[p].limit = DefaultLimit

\* Record k of guild g is in the store before the step and is missing or
\* different after it.
Lost(g, k) ==
    /\ k \in DOMAIN Tickets(g)
    /\ \/ k \notin DOMAIN Get(ticketsFile', g, EmptyDict)
       \/ Get(ticketsFile', g, EmptyDict)[k] # Tickets(g)[k]

\* The step completes a close invoked in channel c of guild g.
CloseCompletes(g, c) ==
    \E p \in Slots :
        /\ h[p].pc = "close_wait" /\ h'[p].pc # "close_wait"
        /\ h[p].g = g /\ h[p].channel = c

\* The step is an owner wipe or a reset of guild g: no creation and no
\* close completes in it, and the records it leaves are records of the
\* store.
WipeOrReset(g) ==
    /\ \A p \in Slots : h[p].pc \in {"create_wait", "close_wait"} => h'[p] = h[p]
    /\ \A k \in DOMAIN Get(ticketsFile', g, EmptyDict) : ~Lost(g, k)

\* C5: a persisted ticket record stays in the store, unaltered, until the
\* close of its channel, an owner wipe of its owner or a reset removes it.
NoLostTicket ==
    [][\A g \in Guilds : \A k \in DOMAIN Tickets(g) :
          Lost(g, k) =>
             \/ CloseCompletes(g, Tickets(g)[k].channel)
             \/ /\ WipeOrReset(g)
                /\ \A k2 \in DOMAIN Tickets(g) :
                      Lost(g, k2) => Tickets(g)[k2].owner = Tickets(g)[k].owner]_vars

\* C6: a close completing for channel C removes or alters no record other
\* than the one whose channel is C, in its guild and in every other guild.
CloseKeepsOtherRecords ==
    [][\A p \in Slots :
          (h[p].pc = "close_wait" /\ h'[p].pc # "close_wait") =>
             \A g \in Guilds : \A k \in DOMAIN Tickets(g) :
                Lost(g, k) => (g = h[p].g /\ Tickets(g)[k].channel = h[p].channel)]_vars

\* A step in which slot p runs slash_close from its store reads to its
\* next await.
CloseStep(p) ==
    /\ h[p].pc = "idle"
    /\ \/ h'[p].pc = "close_wait"
       \/ h'[p].pc = "reply" /\ h'[p].op = "close"

\* The close of slot p, invoked in a channel no record of its guild has,
\* ends as "not a tracked ticket"; any other close does not.
NotTrackedRule(p) ==
    (h'[p].pc = "reply" /\ h'[p].out = "not_tracked")
       <=> \A k \in DOMAIN Tickets(h'[p].g) : Tickets(h'[p].g)[k].channel # h'[p].channel

\* C7 as stated: a close from an untracked channel fails as not tracked and
\* leaves both collections exactly as they were.
UntrackedCloseChangesNothing ==
    [][\A p \in Slots : CloseStep(p) =>
          /\ NotTrackedRule(p)
          /\ (h'[p].pc = "reply" /\ h'[p].out = "not_tracked") =>
                (ticketsFile' = ticketsFile /\ configFile' = configFile)]_vars

\* C7: a close from an untracked channel fails as not tracked and leaves
\* the configuration and every guild's ticket records as they were; the
\* tickets collection changes at most by gaining an empty entry for the
\* invoking guild when it had none.
UntrackedCloseKeepsRecords ==
    [][\A p \in Slots : CloseStep(p) =>
          /\ NotTrackedRule(p)
          /\ (h'[p].pc = "reply" /\ h'[p].out = "not_tracked") =>
                /\ configFile' = configFile
                /\ \A g \in Guilds : Get(ticketsFile', g, EmptyDict) = Tickets(g)
                /\ DOMAIN ticketsFile' = DOMAIN ticketsFile \cup {h'[p].g}]_vars

\* A close was answered "not a tracked ticket" in a guild whose entry of
\* the tickets collection is empty, while another guild has no entry.
UntrackedCloseOnFreshGuild ==
    \E p \in Slots :
        /\ h[p].pc = "reply" /\ h[p].op = "close" /\ h[p].out = "not_tracked"
        /\ h[p].g \in DOMAIN ticketsFile
        /\ ticketsFile[h[p].g] = EmptyDict
        /\ \E g \in Guilds : g \notin DOMAIN ticketsFile

\* C8: a record that a completing close removes from the store is a record
\* the invoker owns or may manage.
CloseRemovesOnlyAuthorized ==
    [][\A p \in Slots :
          (h[p].pc = "close_wait" /\ h'[p].pc # "close_wait") =>
             \A g \in Guilds : \A k \in DOMAIN Tickets(g) :
                Lost(g, k) =>
                   \/ h[p].u = Tickets(g)[k].owner
                   \/ is_manager(Member(h[p].u), get_config(g))]_vars

\* The confirmation of slot p awaits an answer.
Pending(p) == h[p].pc = "reset_wait" /\ ~h[p].stopped /\ h[p].value = "None"

\* The reset command of slot p reports the terminal state of its
\* confirmation.
Reported(p) ==
    /\ h[p].pc = "reply" /\ h[p].op = "reset"
    /\ h[p].out \in {"TimedOut", "Cancelled", "Confirmed"}

\* The step changes nothing of the store and deletes no channel.
NothingDestroyed ==
    /\ configFile' = configFile
    /\ ticketsFile' = ticketsFile
    /\ liveChans' = liveChans

\* C9: a confirmation starts Pending with a timer of 30 units; the timeout
\* releases it only when the timer has run out, leaving value unset; a
\* reset released with value unset reports TimedOut and neither while
\* waiting nor on reporting deletes a channel or changes the store; only a
\* confirmed reset goes on to the destructive part; and every Pending
\* confirmation is eventually reported with one terminal state.
ConfirmationTimeout ==
    /\ [][\A p \in Slots :
             /\ (h[p].pc = "idle" /\ h'[p].pc = "reset_wait") =>
                   (Pending(p)' /\ h'[p].timer = 30)
             /\ (Pending(p) /\ h'[p].pc = "reset_wait" /\ h'[p].stopped
                   /\ h'[p].value = "None") => h[p].timer = 0
             /\ (h[p].pc = "reset_wait" /\ h'[p].pc # "reset_wait") =>
                   /\ h[p].stopped
                   /\ h[p].value = "None" <=> (Reported(p)' /\ h'[p].out = "TimedOut")
                   /\ h[p].value = "False" <=> (Reported(p)' /\ h'[p].out = "Cancelled")
                   /\ h[p].value # "True" => NothingDestroyed
             /\ (h[p].pc = "reset_wait" /\ h'[p].pc = "reset_wait" /\ h'[p] # h[p]) =>
                   NothingDestroyed]_vars
    /\ \A p \in Slots : Pending(p) ~> Reported(p)

\* A reset reports TimedOut while the guild's tickets, their channels and
\* its configuration are still there.
TimedOutKeepsEverything ==
    \E p \in Slots :
        /\ Reported(p) /\ h[p].out = "TimedOut"
        /\ Tickets(h[p].g) # EmptyDict
        /\ \A k \in DOMAIN Tickets(h[p].g) : Tickets(h[p].g)[k].channel \in liveChans
        /\ get_config(h[p].g) # EmptyDict

\* A step in which slot p handles a click on the view of slot v.
ClickStep(p, v) ==
    /\ h[p].pc = "idle"
    /\ h'[p].pc = "reply" /\ h'[p].op = "click" /\ h'[p].view = v

\* C10: a click by an actor other than the invoker is rejected and leaves
\* the view as it was (value unset, wait not released) and the store
\* unchanged; a view's value is set only in a click of its invoker.
OnlyInvokerMoves ==
    /\ [][\A p, v \in Slots : ClickStep(p, v) =>
             /\ Pending(v)
             /\ h'[p].u # h[v].u =>
                   /\ h'[p].out = "rejected"
                   /\ h'[v] = h[v]
                   /\ NothingDestroyed
             /\ h'[p].u = h[v].u => h'[p].out = "accepted"]_vars
    /\ [][\A v \in Slots :
             (h[v].pc = "reset_wait" /\ h'[v].pc = "reset_wait"
                /\ h'[v].value # h[v].value) =>
                \E p \in Slots : ClickStep(p, v) /\ h'[p].u = h[v].u]_vars

\* A click by another actor was rejected and the confirmation is still
\* Pending.
RejectedClickLeavesPending ==
    \E p, v \in Slots :
        /\ h[p].pc = "reply" /\ h[p].op = "click" /\ h[p].out = "rejected"
        /\ h[p].view = v
        /\ Pending(v)
        /\ h[p].u # h[v].u

\* The reset command of slot p is in its destructive part, or enters it
\* with this step.
Confirmed(p) == h[p].pc = "reset_wait" /\ h[p].stopped /\ h[p].value = "True"

\* C11: a reset command deletes channels and clears the collections only
\* after its confirmation was Confirmed: its steps while Pending, and its
\* steps once released Cancelled or TimedOut, delete no channel and change
\* neither collection, and the sweep is entered only from Confirmed.
DestroysOnlyConfirmed ==
    [][\A p \in Slots :
          /\ (h[p].pc = "reset_wait" /\ ~Confirmed(p) /\ h'[p] # h[p]) =>
                /\ NothingDestroyed
                /\ h'[p].pc # "reset_sweep"
                /\ ~(Reported(p)' /\ h'[p].out = "Confirmed")
          /\ (Reported(p) /\ h[p].out # "Confirmed" /\ h'[p] # h[p]) =>
                NothingDestroyed
          /\ (h[p].pc # "reset_sweep" /\ h'[p].pc = "reset_sweep") => Confirmed(p)]_vars

\* A reset reports Cancelled while the guild's tickets, their channels and
\* its configuration are still there.
CancelledKeepsEverything ==
    \E p \in Slots :
        /\ Reported(p) /\ h[p].out = "Cancelled"
        /\ Tickets(h[p].g) # EmptyDict
        /\ \A k \in DOMAIN Tickets(h[p].g) : Tickets(h[p].g)[k].channel \in liveChans
        /\ get_config(h[p].g) # EmptyDict

\* The step changes no entry of a guild other than g, in either collection.
OtherGuildsKept(g) ==
    \A g2 \in Guilds \ {g} :
        /\ (g2 \in DOMAIN ticketsFile') = (g2 \in DOMAIN ticketsFile)
        /\ Get(ticketsFile', g2, EmptyDict) = Tickets(g2)
        /\ (g2 \in DOMAIN configFile') = (g2 \in DOMAIN configFile)
        /\ Get(configFile', g2, EmptyDict) = get_config(g2)

\* C12: the step in which a confirmed reset of guild G completes leaves
\* G's tickets entry and G's config entry empty and the entries of the
\* other guilds as they were; a sweep step, whether its deletion succeeded
\* or not, goes on to a remaining record or to the completion; and every
\* confirmed reset completes.
ResetPostcondition ==
    /\ [][\A p \in Slots :
             /\ (~Reported(p) /\ Reported(p)' /\ h'[p].out = "Confirmed") =>
                   /\ h'[p].g \in DOMAIN ticketsFile' /\ ticketsFile'[h'[p].g] = EmptyDict
                   /\ h'[p].g \in DOMAIN configFile' /\ configFile'[h'[p].g] = EmptyDict
                   /\ OtherGuildsKept(h'[p].g)
             /\ (h[p].pc = "reset_sweep" /\ h'[p] # h[p]) =>
                   /\ OtherGuildsKept(h[p].g)
                   /\ \/ Reported(p)' /\ h'[p].out = "Confirmed"
                      \/ /\ h'[p].pc = "reset_sweep"
                         /\ h'[p].cur \in h[p].todo
                         /\ h'[p].todo \subseteq h[p].todo \ {h'[p].cur}]_vars
    /\ \A p \in Slots :
          (Confirmed(p) \/ h[p].pc = "reset_sweep")
             ~> (Reported(p) /\ h[p].out = "Confirmed")

\* A confirmed reset completed although a channel deletion of its sweep
\* failed, while another guild holds tickets.
ResetCompletedDespiteFailure ==
    \E p \in Slots :
        /\ Reported(p) /\ h[p].out = "Confirmed"
        /\ Tickets(h[p].g) = EmptyDict
        /\ get_config(h[p].g) = EmptyDict
        /\ liveChans \cap CreatedChans(h[p].g) # {}
        /\ \E g2 \in Guilds \ {h[p].g} : Tickets(g2) # EmptyDict

\* C13: a submission whose channel creation failed answers with the
\* failure and leaves the tickets collection and the channels as they
\* were; one whose channel was created persists its record with that
\* channel; and every stored record carries a channel that was created in
\* its guild.
ProvisionFailureClean ==
    /\ [][\A p \in Slots :
             (h[p].pc = "create_wait" /\ h'[p].pc # "create_wait") =>
                /\ h'[p].pc = "reply" /\ h'[p].out \in {"failed", "created"}
                /\ h'[p].out = "failed" =>
                      /\ ticketsFile' = ticketsFile
                      /\ chanGuild' = chanGuild
                      /\ liveChans' = liveChans
                /\ h'[p].out = "created" =>
                      /\ Len(chanGuild') = Len(chanGuild) + 1
                      /\ h'[p].channel = TicketChan(Len(chanGuild'))
                      /\ chanGuild'[Len(chanGuild')] = h[p].g
                      /\ h[p].ticket_id \in DOMAIN Get(ticketsFile', h[p].g, EmptyDict)
                      /\ ticketsFile'[h[p].g][h[p].ticket_id].channel = h'[p].channel
                      /\ ticketsFile'[h[p].g][h[p].ticket_id].owner = h[p].u]_vars
    /\ [](\A g \in Guilds : \A k \in DOMAIN Tickets(g) :
             Tickets(g)[k].channel \in CreatedChans(g))

\* A submission failed at the channel creation in a guild that holds
\* records.
ProvisionFailedWithRecords ==
    \E p \in Slots :
        /\ h[p].pc = "reply" /\ h[p].op = "submit" /\ h[p].out = "failed"
        /\ Tickets(h[p].g) # EmptyDict

\* The guilds whose entry of the tickets collection, and of the config
\* collection, the step changes.
TicketsWritten ==
    {g \in Guilds : \/ (g \in DOMAIN ticketsFile') # (g \in DOMAIN ticketsFile)
                    \/ Get(ticketsFile', g, EmptyDict) # Tickets(g)}

ConfigWritten ==
    {g \in Guilds : \/ (g \in DOMAIN configFile') # (g \in DOMAIN configFile)
                    \/ Get(configFile', g, EmptyDict) # get_config(g)}

\* C14: a step changes the entry of at most one guild in each collection,
\* and a handler resuming from its await changes entries of its own guild
\* only, whatever handlers of other guilds are in flight.
WritesIsolated ==
    [][/\ Cardinality(TicketsWritten) <= 1
       /\ Cardinality(ConfigWritten) <= 1
       /\ \A p \in Slots :
             (h[p].pc \in {"create_wait", "setup_send"} /\ h'[p] # h[p]) =>
                (TicketsWritten \cup ConfigWritten) \subseteq {h[p].g}]_vars

\* The config of one guild was wiped and its tickets entry written while
\* another guild, with a handler in flight, keeps its config and its
\* ticket.
WroteBesideOtherGuild ==
    \E g, g2 \in Guilds :
        /\ g # g2
        /\ g \in DOMAIN configFile /\ configFile[g] = EmptyDict
        /\ g \in DOMAIN ticketsFile
        /\ get_config(g2) # EmptyDict
        /\ Tickets(g2) # EmptyDict
        /\ \E p \in Slots : h[p].pc \in {"create_wait", "setup_send"} /\ h[p].g = g2


-----------------------------------------------------------------------------
(* The file layer (SpecFile).                                              *)

\* C15: a write to a collection's file that is interrupted after it began
\* leaves the file holding either the complete old content (the file as
\* safe_load found or created it) or the complete new mapping.
InterruptedWriteKeepsOldOrNew ==
    [][\A p \in Slots, coll \in {"config", "tickets"} :
          (h[p].pc = "idle" /\ h'[p].pc = "reply" /\ h'[p].op \in {"get", "set"}
             /\ h'[p].coll = coll /\ h'[p].torn)
          => disk'[coll] \in {disk[coll], safe_load(disk[coll], DictFile(EmptyDict)).file,
                              h'[p].new}]_vars

\* C16: get(collection, G), no write being interrupted, never raises and
\* returns an object, whatever state the backing file is in.
GetIsTotal ==
    \A p \in Slots :
        (h[p].pc = "reply" /\ h[p].op = "get" /\ ~h[p].torn)
        => (~h[p].raised /\ h[p].ret.isobj)

\* C17: set(collection, G, X) immediately followed by get(collection, G)
\* returns X, for each collection, guild and well-formed object X.
RoundTrip ==
    \A p \in Slots :
        (h[p].pc = "reply" /\ h[p].op = "set_get")
        => (~h[p].raised /\ h[p].ret = Obj(h[p].x))


-----------------------------------------------------------------------------
(* Owner wipe, config wipe and authorization (SpecAdmin).                  *)

\* The owner wipe of slot p has just gone through.
WipeStep(p) ==
    /\ h[p].pc = "idle" /\ h'[p].pc = "reply"
    /\ h'[p].op = "wipeticketstatus" /\ h'[p].out = "wiped"

\* The ids of the records of guild g owned by user a.
OwnedBy(g, a) == {k \in DOMAIN Tickets(g) : Tickets(g)[k].owner = a}

\* C18: an owner wipe of user A in guild G removes exactly the records of G
\* owned by A, leaves every other record (of G and of other guilds) as it
\* was, and reports the number of records it removed.
OwnerWipeExact ==
    [][\A p \in Slots :
          WipeStep(p) =>
            LET g == h'[p].g
                after == Get(ticketsFile', g, EmptyDict)
            IN  /\ DOMAIN after = DOMAIN Tickets(g) \ OwnedBy(g, h'[p].target)
                /\ \A k \in DOMAIN after : after[k] = Tickets(g)[k]
                /\ h'[p].removed = Cardinality(OwnedBy(g, h'[p].target))
                /\ \A g2 \in Guilds \ {g} :
                      Get(ticketsFile', g2, EmptyDict) = Tickets(g2)]_vars

\* An owner wipe reported one record removed and a record of another owner
\* is still stored.
OwnerWipeLeftOthers ==
    \E p \in Slots :
        /\ h[p].pc = "reply" /\ h[p].op = "wipeticketstatus" /\ h[p].out = "wiped"
        /\ h[p].removed = 1
        /\ OwnedBy(h[p].g, h[p].target) = {}
        /\ Tickets(h[p].g) # EmptyDict

\* The config wipe of slot p has just gone through.
ConfigWipeStep(p) ==
    /\ h[p].pc = "idle" /\ h'[p].pc = "reply"
    /\ h'[p].op = "wipeconfig" /\ h'[p].out = "wiped"

\* Slot p takes a step of an owner wipe or of a close.
WipeOrCloseStep(p) ==
    \/ h[p].pc = "idle" /\ h'[p].pc = "reply" /\ h'[p].op = "wipeticketstatus"
    \/ CloseStep(p)
    \/ h[p].pc = "close_wait" /\ h'[p].pc # "close_wait"

\* C19: owner wipe and close leave the config collection unchanged; a
\* config wipe makes the guild's config the empty object, leaves the
\* config of other guilds and leaves every ticket record unchanged.
CollectionsSeparable ==
    [][\A p \in Slots :
          /\ WipeOrCloseStep(p) => configFile' = configFile
          /\ ConfigWipeStep(p) =>
               /\ ticketsFile' = ticketsFile
               /\ Get(configFile', h'[p].g, EmptyDict) = EmptyDict
               /\ \A g2 \in Guilds \ {h'[p].g} :
                     Get(configFile', g2, EmptyDict) = Get(configFile, g2, EmptyDict)]_vars

\* A config wipe went through in a guild that has ticket records.
ConfigWipedTicketsKept ==
    \E p \in Slots :
        /\ h[p].pc = "reply" /\ h[p].op = "wipeconfig" /\ h[p].out = "wiped"
        /\ get_config(h[p].g) = EmptyDict
        /\ Tickets(h[p].g) # EmptyDict

\* The commands that require a capability of their invoker.
ManagerOps == {"addallowedrole", "removeallowedrole", "addpingedrole",
               "removepingedrole", "wipeticketstatus"}
AdminOps == {"wipeconfig", "reset"}
AuthOps == ManagerOps \cup AdminOps \cup {"setup"}

\* The command a slot record belongs to.
OpOf(r) ==
    IF r.pc = "reply" THEN r.op
    ELSE IF r.pc = "setup_send" THEN "setup"
    ELSE IF r.pc = "reset_wait" THEN "reset"
    ELSE "other"

\* User u is a manager of guild g: listed in the allowed users, holder of
\* an allowed role, or holder of manage-guild or administrator.
Manager(u, g) ==
    LET cfg == get_config(g)
        users == Get(cfg, "allowed_users", <<>>)
        roles == Get(cfg, "allowed_roles", <<>>)
    IN  \/ \E i \in DOMAIN users : users[i] = u
        \/ \E i \in DOMAIN roles : roles[i] \in Member(u).roles
        \/ Member(u).manage_guild \/ Member(u).administrator

\* User u lacks the capability command op requires in guild g.
Lacks(op, u, g) ==
    IF op \in ManagerOps THEN ~Manager(u, g)
    ELSE IF op \in AdminOps THEN ~Member(u).administrator
    ELSE ~Member(u).manage_guild /\ ~Member(u).administrator

\* C20: a command whose invoker lacks the required capability is denied,
\* no command is denied otherwise, and a denied command leaves both store
\* collections exactly as they were.
DeniedChangesNothing ==
    [][\A p \in Slots :
          (h[p].pc = "idle" /\ h'[p].pc # "idle" /\ OpOf(h'[p]) \in AuthOps) =>
            LET denied == h'[p].pc = "reply" /\ h'[p].out = "denied"
            IN  /\ Lacks(OpOf(h'[p]), h'[p].u, h'[p].g) <=> denied
                /\ denied => (configFile' = configFile /\ ticketsFile' = ticketsFile)]_vars

\* An owner wipe was denied while records of its target are stored.
DeniedWipeKeptRecords ==
    \E p \in Slots :
        /\ h[p].pc = "reply" /\ h[p].op = "wipeticketstatus" /\ h[p].out = "denied"
        /\ OwnedBy(h[p].g, h[p].target) # {}


-----------------------------------------------------------------------------
(* Setup validation (SpecAdmin).                                           *)

\* C21: a setup invoked with ticket_limit <= 0 by a member allowed to set
\* up ends rejected and leaves the guild's config as it was.
NonPositiveLimitRejected ==
    [][\A p \in Slots :
          (h[p].pc = "setup_send" /\ h[p].ticket_limit <= 0 /\ h'[p].pc # "setup_send")
          => /\ h'[p].pc = "reply" /\ h'[p].out = "rejected"
             /\ Get(configFile', h[p].g, EmptyDict) = get_config(h[p].g)]_vars


-----------------------------------------------------------------------------
(* is_manager (SpecManager).                                               *)

\* The id is listed, a role is listed, or an elevated permission is held.
Entitled(member, cfg) ==
    LET users == Get(cfg, "allowed_users", <<>>)
        roles == Get(cfg, "allowed_roles", <<>>)
    IN  \/ \E i \in DOMAIN users : users[i] = member.id
        \/ \E i \in DOMAIN roles : roles[i] \in member.roles
        \/ member.manage_guild \/ member.administrator

\* C22: is_manager(actor, config) is true exactly when the actor's id is in
\* allowedUsers, or a role of the actor is in allowedRoles, or the actor
\* holds manage-guild or administrator; it is false when the actor's roles
\* or permissions cannot be determined.
IsManagerContract ==
    \A p \in Slots :
        (h[p].pc = "reply" /\ h[p].op = "is_manager")
        => h[p].ret = (h[p].member.is_member /\ Entitled(h[p].member, h[p].cfg))

\* What is_manager does: for an actor whose roles and permissions cannot
\* be read, it is true exactly when the actor's id is in allowedUsers.
IsManagerListedFirst ==
    \A p \in Slots :
        (h[p].pc = "reply" /\ h[p].op = "is_manager")
        => h[p].ret = IF h[p].member.is_member THEN Entitled(h[p].member, h[p].cfg)
                      ELSE \E i \in DOMAIN Get(h[p].cfg, "allowed_users", <<>>) :
                              h[p].cfg["allowed_users"][i] = h[p].member.id


-----------------------------------------------------------------------------
(* The allow-list and the ping-list (SpecLists).                           *)

\* The stored list a remove command of `op` for a principal of `kind`
\* works on.
ListKey(op, kind) ==
    IF op = "removeallowedrole"
    THEN (IF kind = "role" THEN "allowed_roles" ELSE "allowed_users")
    ELSE (IF kind = "role" THEN "ping_roles" ELSE "ping_users")

\* C23: after removeallowedrole (resp. removepingedrole) for principal x
\* completes, x is not in the corresponding stored list, whatever setup,
\* add and remove commands came before.
RemovalEffective ==
    [][\A p \in Slots :
          (h[p].pc = "idle" /\ h'[p].pc = "reply"
             /\ h'[p].op \in {"removeallowedrole", "removepingedrole"}
             /\ h'[p].out = "removed")
          => LET x == parse_mention(h'[p].item)
                 cfg == Get(configFile', h'[p].g, EmptyDict)
             IN  ~InList(Get(cfg, ListKey(h'[p].op, x.kind), <<>>), x.val)]_vars


-----------------------------------------------------------------------------
(* Removed records (SpecRemoval).                                          *)

\* The store of guild g holds a record with this id and channel.
Stored(g, id, channel) ==
    id \in DOMAIN Tickets(g) /\ Tickets(g)[id].channel = channel

\* C24: a record that a completed close, owner wipe or reset removed from
\* the store is never in the store again, whatever handlers that read the
\* guild's tickets before the removal save afterwards.
NoResurrection ==
    \A r \in removed : ~Stored(r.g, r.id, r.channel)

====
